---- MODULE Spec2Model ----
(***************************************************************************)
(* Docs-chat API server (scripts/docs-chat/serve.ts) and the vector-store  *)
(* factory (scripts/docs-chat/rag/store-factory.ts).                       *)
(*                                                                         *)
(* Time is Date.now() in milliseconds.  Strings that the code parses       *)
(* (header values) are sequences of one-character strings.                 *)
(*                                                                         *)
(* Between its awaits handleChat reads and writes nothing but its own      *)
(* locals and its own response, and the rate limiter runs before the first *)
(* await, within the same turn of the event loop as the request's          *)
(* arrival.  A request is therefore one step: the steps of two requests    *)
(* interleave in every order, and what the awaits deliver (the body's      *)
(* chunks, the retriever's results, the upstream's tokens or failure) is   *)
(* the input of the step.                                                  *)
(***************************************************************************)
EXTENDS Integers, Sequences, FiniteSets, TLC

(***************************************************************************)
(* Bounds of the model.                                                    *)
(***************************************************************************)
MaxRateLimit == 2       \* RATE_LIMIT is configured in 0..MaxRateLimit
MaxClock == 1500        \* Date.now() stays within 0..MaxClock
MaxTokens == 1          \* tokens relayed for one answer
MaxIndexChunks == 2     \* chunks written by one index build
MaxLines == 2           \* lines of the upstream body
MaxChunks == 2          \* chunks the upstream body arrives in

(***************************************************************************)
(* Program constants.                                                      *)
(***************************************************************************)
MAX_MESSAGE_LENGTH == 2000
MAX_BODY_SIZE == 8192
MsPerSecond == 1000
RetrieveLimit == 8

\* Clock advances and rate-limit windows the model draws from (milliseconds).
Steps == {500}
Windows == {1000}

VARIABLES
    RATE_LIMIT,       \* serve.ts:19
    RATE_WINDOW_MS,   \* serve.ts:20
    env,              \* process.env: the variables the two files read
    clock,            \* Date.now()
    nextSweep,        \* earliest time the setInterval callback fires next
    rateLimitStore,   \* serve.ts:25, key -> record, NoRecord when absent
    resp,             \* the response the last step wrote, NoResponse if none
    tables,           \* chunks held at each storage location
    created,          \* what the most recent createStore() returned
    lastWritten,      \* chunks written by the most recent replaceAll
    window,           \* per key, the window its requests are counted in
    admitted,         \* per observed key, the times of its recent allowed requests
    op                \* the step taken last

vars == <<RATE_LIMIT, RATE_WINDOW_MS, env, clock, nextSweep, rateLimitStore,
          resp, tables, created, lastWritten, window, admitted, op>>

(***************************************************************************)
(* JavaScript values.                                                      *)
(***************************************************************************)
\* The value of an unset environment variable.
Undefined == "undefined"
EmptyString == ""
Truthy(v) == v # Undefined /\ v # EmptyString
JsAnd(a, b) == IF Truthy(a) THEN b ELSE a
JsOr(a, b) == IF Truthy(a) THEN a ELSE b

\* Math.ceil(a / b) for b > 0.
Ceil(a, b) == -((-a) \div b)
Max(a, b) == IF a >= b THEN a ELSE b

(***************************************************************************)
(* Header values and addresses: sequences of one-character strings.        *)
(***************************************************************************)
\* The value of a header the request does not carry, of a socket without a
\* remote address.
Absent == <<"undefined">>
Unknown == <<"u", "n", "k", "n", "o", "w", "n">>

RECURSIVE TrimStart(_)
TrimStart(s) ==
    IF s # <<>> /\ Head(s) = " " THEN TrimStart(Tail(s)) ELSE s

RECURSIVE TrimEnd(_)
TrimEnd(s) ==
    IF s # <<>> /\ s[Len(s)] = " " THEN TrimEnd(SubSeq(s, 1, Len(s) - 1)) ELSE s

\* String.prototype.trim
Trim(s) == TrimEnd(TrimStart(s))

\* s.split(",")[0]
RECURSIVE FirstField(_)
FirstField(s) ==
    IF s = <<>> \/ Head(s) = "," THEN <<>> ELSE <<Head(s)>> \o FirstField(Tail(s))

\* A resolution that prefers x-real-ip to x-forwarded-for.
getClientIP_RealIpFirst(req) ==
    IF req.realIp # Absent THEN Trim(req.realIp)
    ELSE IF req.forwarded # Absent THEN Trim(FirstField(req.forwarded))
    ELSE IF req.remoteAddress # Absent /\ req.remoteAddress # <<>>
         THEN req.remoteAddress
         ELSE Unknown

getClientIP(req) ==
    IF req.forwarded # Absent THEN Trim(FirstField(req.forwarded))
    ELSE IF req.realIp # Absent THEN Trim(req.realIp)
    ELSE IF req.remoteAddress # Absent /\ req.remoteAddress # <<>>
         THEN req.remoteAddress
         ELSE Unknown

\* A request: its method and url, the two proxy headers and the address of
\* the socket it arrived on.
Request(method, url, forwarded, realIp, remoteAddress) ==
    [method |-> method, url |-> url, forwarded |-> forwarded, realIp |-> realIp,
     remoteAddress |-> remoteAddress]

\* POST /chat of client "a" on its own socket, and of client "b" through a
\* proxy.
ChatOfA == Request("POST", "/chat", Absent, Absent, <<"a">>)
ChatOfB == Request("POST", "/chat", <<"b", ",", " ", "a">>, Absent, <<"a">>)

\* The requests the server receives.
Requests ==
    {ChatOfA, ChatOfB,
     Request("OPTIONS", "/chat", Absent, Absent, <<"a">>),
     Request("GET", "/health", Absent, Absent, <<"a">>),
     Request("GET", "/", Absent, Absent, <<"a">>),
     Request("GET", "/chat", Absent, Absent, <<"a">>)}

Keys == {getClientIP(req) : req \in {ChatOfA, ChatOfB}}

\* POST /chat with and without each of the proxy headers and the socket
\* address.
ProxiedRequests ==
    {Request("POST", "/chat", <<" ", "b", " ", ",", "c">>, <<"c", " ">>, <<"a">>),
     Request("POST", "/chat", <<"b">>, Absent, Absent),
     Request("POST", "/chat", <<>>, <<"c", " ">>, <<"a">>),
     Request("POST", "/chat", Absent, <<"c", " ">>, <<"a">>),
     ChatOfA,
     Request("POST", "/chat", Absent, Absent, Absent),
     Request("POST", "/chat", Absent, Absent, <<>>)}

ProxiedKeys == {getClientIP(req) : req \in ProxiedRequests}

(***************************************************************************)
(* The rate limiter.                                                       *)
(***************************************************************************)
\* rateLimitStore.get(ip) of a key the map does not hold.
NoRecord == [count |-> 0, resetAt |-> -1]

\* A limiter that opens a new window only for a key it holds no record of:
\* an expired record is never replaced.
checkRateLimit_NoExpiry(ip, now, map) ==
    LET record == map[ip] IN
    IF record = NoRecord
    THEN [map |-> [map EXCEPT ![ip] = [count |-> 1, resetAt |-> now + RATE_WINDOW_MS]],
          allowed |-> TRUE,
          remaining |-> RATE_LIMIT - 1,
          resetAt |-> now + RATE_WINDOW_MS]
    ELSE IF record.count >= RATE_LIMIT
    THEN [map |-> map, allowed |-> FALSE, remaining |-> 0, resetAt |-> record.resetAt]
    ELSE [map |-> [map EXCEPT ![ip] = [count |-> record.count + 1,
                                       resetAt |-> record.resetAt]],
          allowed |-> TRUE,
          remaining |-> RATE_LIMIT - (record.count + 1),
          resetAt |-> record.resetAt]

\* A limiter with one record for all keys: it reads the record of the key
\* asked about and writes the result under every key.
checkRateLimit_Shared(ip, now, map) ==
    LET record == map[ip] IN
    IF record = NoRecord \/ now > record.resetAt
    THEN [map |-> [k \in DOMAIN map |-> [count |-> 1, resetAt |-> now + RATE_WINDOW_MS]],
          allowed |-> TRUE,
          remaining |-> RATE_LIMIT - 1,
          resetAt |-> now + RATE_WINDOW_MS]
    ELSE IF record.count >= RATE_LIMIT
    THEN [map |-> map, allowed |-> FALSE, remaining |-> 0, resetAt |-> record.resetAt]
    ELSE [map |-> [k \in DOMAIN map |-> [count |-> record.count + 1,
                                         resetAt |-> record.resetAt]],
          allowed |-> TRUE,
          remaining |-> RATE_LIMIT - (record.count + 1),
          resetAt |-> record.resetAt]

checkRateLimit(ip, now, map) ==
    LET record == map[ip] IN
    IF record = NoRecord \/ now > record.resetAt
    THEN [map |-> [map EXCEPT ![ip] = [count |-> 1, resetAt |-> now + RATE_WINDOW_MS]],
          allowed |-> TRUE,
          remaining |-> RATE_LIMIT - 1,
          resetAt |-> now + RATE_WINDOW_MS]
    ELSE IF record.count >= RATE_LIMIT
    THEN [map |-> map,
          allowed |-> FALSE,
          remaining |-> 0,
          resetAt |-> record.resetAt]
    ELSE [map |-> [map EXCEPT ![ip] = [count |-> record.count + 1, resetAt |-> record.resetAt]],
          allowed |-> TRUE,
          remaining |-> RATE_LIMIT - (record.count + 1),
          resetAt |-> record.resetAt]

\* A callback that also deletes the records whose window ends at `now`.
sweep_AtReset(now, map) ==
    [ip \in DOMAIN map |->
        IF map[ip] # NoRecord /\ now >= map[ip].resetAt THEN NoRecord ELSE map[ip]]

\* The body of the setInterval callback: the map without its expired records.
sweep(now, map) ==
    [ip \in DOMAIN map |->
        IF map[ip] # NoRecord /\ now > map[ip].resetAt THEN NoRecord ELSE map[ip]]

(***************************************************************************)
(* Responses.                                                              *)
(***************************************************************************)
\* A response is what the client receives (status, type, headers, body) and,
\* for the properties below, the request it answers: the rate-limit key, the
\* steps handleChat took, the chunks it read, the number of results the
\* retriever gave it, what the client sent, the number of res.end calls,
\* and for a streamed answer the chunks of the upstream body and whether
\* streamOpenAI threw.
NoBody == [kind |-> "none", chunks |-> <<>>, trimmed |-> 0]

\* A response body: the fields of the JSON object, or the text written.
EmptyBody ==
    [error |-> "", max |-> 0, retryAfter |-> 0, ok |-> FALSE, chunks |-> 0,
     mode |-> "", text |-> <<>>]
ErrorBody(message) == [EmptyBody EXCEPT !.error = message]
TextBody(parts) == [EmptyBody EXCEPT !.text = parts]

\* Headers are <<name, value>> pairs.
HasHeader(r, name) == \E h \in r.headers : h[1] = name
Header(r, name) == (CHOOSE h \in r.headers : h[1] = name)[2]

NoResponse ==
    [status |-> 0, type |-> "none", headers |-> {}, body |-> EmptyBody,
     ip |-> Absent, steps |-> {}, read |-> 0, results |-> 0, sent |-> NoBody,
     ends |-> 0, upstream |-> <<>>, failed |-> FALSE]

\* res.writeHead(status, {...corsHeaders, "Content-Type": "application/json"});
\* res.end(JSON.stringify(body)), on a response whose headers `headers`
\* were set with res.setHeader before.
sendJson(status, body, headers) ==
    [NoResponse EXCEPT !.status = status, !.type = "application/json",
                       !.headers = headers, !.body = body, !.ends = 1]

\* res.writeHead(200, {...corsHeaders, "Content-Type": "text/plain; charset=utf-8"}) and the
\* text written until res.end.
sendText(parts, headers) ==
    [NoResponse EXCEPT !.status = 200, !.type = "text/plain; charset=utf-8",
                       !.headers = headers, !.body = TextBody(parts), !.ends = 1]

Apology == "I couldn't find relevant documentation excerpts for that question. Try rephrasing or search the docs."
ErrorMarker == "\n\n[Error contacting OpenAI]"

\* The headers with the remaining count as checkRateLimit returned it.
rateLimitHeaders_Unfloored(check) ==
    {<<"X-RateLimit-Limit", RATE_LIMIT>>,
     <<"X-RateLimit-Remaining", check.remaining>>,
     <<"X-RateLimit-Reset", Ceil(check.resetAt, MsPerSecond)>>}

\* The three res.setHeader calls of the POST /chat branch.
rateLimitHeaders(check) ==
    {<<"X-RateLimit-Limit", RATE_LIMIT>>,
     <<"X-RateLimit-Remaining", Max(0, check.remaining)>>,
     <<"X-RateLimit-Reset", Ceil(check.resetAt, MsPerSecond)>>}

(***************************************************************************)
(* Routing (the http.createServer callback).                               *)
(***************************************************************************)
route(req) ==
    IF req.method = "OPTIONS" THEN "options"
    ELSE IF req.method = "GET" /\ (req.url = "/" \/ req.url = "/health") THEN "health"
    ELSE IF req.method = "POST" /\ req.url = "/chat" THEN "chat"
    ELSE "notfound"

(***************************************************************************)
(* Storage.  A location holds the chunks of one index: a LanceDB directory *)
(* or the Upstash index.                                                   *)
(***************************************************************************)
defaultDbPath == "scripts/docs-chat/.lance-db"
DEFAULT_LANCEDB_PATH == "scripts/docs-chat/.lancedb"
CustomPath == "/data/docs-chat-db"
UpstashIndex == "upstash"
Locations == {defaultDbPath, DEFAULT_LANCEDB_PATH, CustomPath, UpstashIndex}

dbPath == JsOr(env.DOCS_CHAT_DB, defaultDbPath)

\* new DocsStore(dbPath, embeddings.dimensions), the class of ./rag/store.js
store == [backend |-> "lancedb", location |-> dbPath]

\* IDocsStore.count and IDocsStore.replaceAll
count(st, tbl) == tbl[st.location]
replaceAll(st, n, tbl) == [tbl EXCEPT ![st.location] = n]

(***************************************************************************)
(* The store factory (rag/store-factory.ts).                               *)
(***************************************************************************)
\* A detection that takes either variable for both.
detectStoreMode_Either ==
    LET hasUpstash == JsOr(env.UPSTASH_VECTOR_REST_URL, env.UPSTASH_VECTOR_REST_TOKEN)
    IN  IF Truthy(hasUpstash) THEN "upstash" ELSE "lancedb"

detectStoreMode ==
    LET hasUpstash == JsAnd(env.UPSTASH_VECTOR_REST_URL, env.UPSTASH_VECTOR_REST_TOKEN)
    IN  IF Truthy(hasUpstash) THEN "upstash" ELSE "lancedb"

\* mode and lancedbPath are Undefined when the caller leaves them out.
createStore(mode, lancedbPath) ==
    LET selectedMode == IF mode # Undefined THEN mode ELSE detectStoreMode
    IN  IF selectedMode = "upstash"
        THEN [store |-> [backend |-> "upstash", location |-> UpstashIndex],
              mode |-> "upstash"]
        ELSE [store |-> [backend |-> "lancedb",
                         location |-> IF lancedbPath # Undefined
                                      THEN lancedbPath
                                      ELSE DEFAULT_LANCEDB_PATH],
              mode |-> "lancedb"]

\* `created` holds the arguments of the most recent createStore call with
\* what it returned.
Created(mode, lancedbPath) ==
    [mode |-> mode, lancedbPath |-> lancedbPath, result |-> createStore(mode, lancedbPath)]
NotCreated ==
    [mode |-> "", lancedbPath |-> "",
     result |-> [store |-> [backend |-> "", location |-> ""], mode |-> ""]]

(***************************************************************************)
(* Request bodies (handleChat).                                            *)
(*                                                                         *)
(* A body is the sizes of the chunks it arrives in and what JSON.parse     *)
(* will make of it.  A string message is `lead` whitespace characters,     *)
(* `core` characters that start and end with a non-whitespace character,   *)
(* and `trail` whitespace characters; `mb` of the core's characters take   *)
(* two bytes in UTF-8, and `split` of those straddle the boundary between  *)
(* two chunks.                                                             *)
(***************************************************************************)
CoreLengths == {0, 1, MAX_MESSAGE_LENGTH, MAX_MESSAGE_LENGTH + 1}

NoContent == [kind |-> "empty", lead |-> 0, core |-> 0, trail |-> 0, mb |-> 0, split |-> 0]

RECURSIVE Sum(_)
Sum(sizes) == IF sizes = <<>> THEN 0 ELSE Head(sizes) + Sum(Tail(sizes))

\* The contents of a body of `bytes` bytes that arrives in `nchunks` chunks.
BodyContents(bytes, nchunks) ==
    IF bytes = 0 THEN {NoContent}
    ELSE {[NoContent EXCEPT !.kind = k] : k \in {"invalid", "null", "nomessage"}}
         \cup
         {c \in [kind : {"message"}, lead : 0..1, core : CoreLengths,
                 trail : 0..1, mb : 0..1, split : 0..1] :
            /\ c.mb <= c.core
            /\ c.split <= c.mb
            /\ c.split > 0 => nchunks >= 2
            /\ c.lead + c.core + c.trail + c.mb < bytes}

MessageContents ==
    {c \in [kind : {"message"}, lead : 0..1, core : CoreLengths,
            trail : 0..1, mb : 0..1, split : 0..1] :
        c.lead = c.trail /\ c.mb = c.split /\ c.mb <= c.core}

OtherContents ==
    {[NoContent EXCEPT !.kind = k] : k \in {"empty", "invalid", "null", "nomessage"}}

\* The bodies with the given chunk sizes and contents.
BodiesOf(chunkings, contents) ==
    UNION {{[chunks |-> ch, content |-> c] :
                c \in contents \cap BodyContents(Sum(ch), Len(ch))} :
           ch \in chunkings}

\* What the client sent, as the properties below speak of it.
Sent(body) ==
    [kind |-> body.content.kind, chunks |-> body.chunks,
     trimmed |-> body.content.core]

\* A read loop that compares the size with the cap only once the whole body
\* has been read.
RECURSIVE readBody_AfterLoop(_, _, _)
readBody_AfterLoop(chunks, bodySize, read) ==
    IF chunks = <<>>
    THEN [bodySize |-> bodySize, read |-> read, tooLarge |-> bodySize > MAX_BODY_SIZE]
    ELSE readBody_AfterLoop(Tail(chunks), bodySize + Head(chunks), read + 1)

\* bodySize > MAX_BODY_SIZE
BodyTooLarge(bodySize) == bodySize > MAX_BODY_SIZE

\* The loop `for await (const chunk of req)`: the chunks read, the bytes
\* counted, and whether the loop ended in the 413 branch.
RECURSIVE readBody(_, _, _)
readBody(chunks, bodySize, read) ==
    IF chunks = <<>>
    THEN [bodySize |-> bodySize, read |-> read, tooLarge |-> FALSE]
    ELSE IF BodyTooLarge(bodySize + Head(chunks))
    THEN [bodySize |-> bodySize + Head(chunks), read |-> read + 1, tooLarge |-> TRUE]
    ELSE readBody(Tail(chunks), bodySize + Head(chunks), read + 1)

\* body += chunk: every chunk is decoded as UTF-8 on its own, so each half
\* of a two-byte character that straddles two chunks becomes one U+FFFD.
decode(c) == [c EXCEPT !.core = c.core + c.split]

\* JSON.parse(body || "{}").message inside the try block: whether it threw,
\* and the value of `message` otherwise.
parseMessage(c) ==
    LET d == decode(c) IN
    [threw |-> c.kind \in {"invalid", "null"},
     isString |-> c.kind = "message",
     lead |-> d.lead, core |-> d.core, trail |-> d.trail]

\* The checks on `message` without the one on its trimmed length.
validate_NoLimit(message) ==
    IF ~message.isString \/ message.lead + message.core + message.trail = 0
    THEN "message required"
    ELSE IF message.core = 0
    THEN "message required"
    ELSE ""

\* Only the check on the trimmed length of `message`.
validate_LengthOnly(message) ==
    IF message.core > MAX_MESSAGE_LENGTH THEN "Message too long" ELSE ""

\* The three checks on `message`: the error sent, "" when it passes.
validate(message) ==
    IF ~message.isString \/ message.lead + message.core + message.trail = 0
    THEN "message required"
    ELSE IF message.core = 0
    THEN "message required"
    ELSE IF message.core > MAX_MESSAGE_LENGTH
    THEN "Message too long"
    ELSE ""

\* The body of the 400 response for an error of validate.
validationBody(error) ==
    IF error = "Message too long"
    THEN [ErrorBody(error) EXCEPT !.max = MAX_MESSAGE_LENGTH]
    ELSE ErrorBody(error)

(***************************************************************************)
(* The upstream stream (streamOpenAI).                                     *)
(*                                                                         *)
(* The body of the upstream response is text, a sequence of characters,    *)
(* that arrives in chunks.  After "data:" the character "x" or "y" stands  *)
(* for the JSON of a delta with that content, "e" for the JSON of a delta  *)
(* with empty content and "!" for [DONE]; anything else does not parse.    *)
(***************************************************************************)
Data == <<"d", "a", "t", "a", ":">>
Newline == "\n"
Contents == {"x", "y"}

\* buffer.split("\n"): the lines before the last "\n" and what follows it
\* (lines.pop()).
RECURSIVE splitLines(_, _, _)
splitLines(buffer, lines, line) ==
    IF buffer = <<>>
    THEN [lines |-> lines, rest |-> line]
    ELSE IF Head(buffer) = Newline
    THEN splitLines(Tail(buffer), Append(lines, line), <<>>)
    ELSE splitLines(Tail(buffer), lines, Append(line, Head(buffer)))

\* trimmed.startsWith(prefix)
startsWith(str, prefix) ==
    Len(str) >= Len(prefix) /\ SubSeq(str, 1, Len(prefix)) = prefix

\* One line of the loop body: "skip" for a line that is no data line, that
\* does not parse or that carries no content, "done" for [DONE], and the
\* delta passed to onToken otherwise.
parseLine(line) ==
    LET trimmed == Trim(line)
        data == Trim(SubSeq(trimmed, Len(Data) + 1, Len(trimmed)))
    IN  IF ~startsWith(trimmed, Data) THEN "skip"
        ELSE IF data = <<"!">> THEN "done"
        ELSE IF Len(data) = 1 /\ data[1] \in Contents THEN data[1]
        ELSE "skip"

\* for (const line of lines): the tokens passed to onToken, and whether the
\* loop returned at [DONE].
RECURSIVE processLines(_, _)
processLines(lines, tokens) ==
    IF lines = <<>>
    THEN [tokens |-> tokens, done |-> FALSE]
    ELSE LET parsed == parseLine(Head(lines)) IN
         IF parsed = "done" THEN [tokens |-> tokens, done |-> TRUE]
         ELSE IF parsed = "skip" THEN processLines(Tail(lines), tokens)
         ELSE processLines(Tail(lines), Append(tokens, parsed))

\* for await (const chunk of res.body), from the state of `buffer` and the
\* tokens passed on so far.  `failed`: the body fails once the chunks have
\* been read (with no chunks: fetch rejects, or the response is not ok).
RECURSIVE readStream(_, _, _, _)
readStream(chunks, buffer, tokens, failed) ==
    IF chunks = <<>>
    THEN [tokens |-> tokens, done |-> FALSE, threw |-> failed]
    ELSE LET split == splitLines(buffer \o Head(chunks), <<>>, <<>>)
             now == processLines(split.lines, tokens)
         IN  IF now.done
             THEN [tokens |-> now.tokens, done |-> TRUE, threw |-> FALSE]
             ELSE readStream(Tail(chunks), split.rest, now.tokens, failed)

\* streamOpenAI(systemPrompt, userMessage, onToken): the tokens it passes to
\* onToken and whether it throws.
streamOpenAI(upstream, failed) == readStream(upstream, <<>>, <<>>, failed)

\* The text the chunks carry.
RECURSIVE Flatten(_)
Flatten(chunks) ==
    IF chunks = <<>> THEN <<>> ELSE Head(chunks) \o Flatten(Tail(chunks))

\* The stream of an answer of n tokens in one chunk, ended by [DONE] or by
\* the end of the body.
RECURSIVE AnswerText(_)
AnswerText(n) ==
    IF n = 0 THEN <<>> ELSE AnswerText(n - 1) \o Data \o <<"x", Newline>>
Answer(n, done) ==
    LET text == AnswerText(n) \o (IF done THEN Data \o <<"!", Newline>> ELSE <<>>)
    IN  IF text = <<>> THEN <<>> ELSE <<text>>

(***************************************************************************)
(* What the awaits after validation deliver: the number of results of      *)
(* retriever.retrieve (Rejected when it throws), the chunks of the         *)
(* upstream body and whether it fails after them.                          *)
(***************************************************************************)
Rejected == -1

Outcome(results, upstream, failed) ==
    [results |-> results, upstream |-> upstream, failed |-> failed]

Outcomes ==
    [results : {Rejected, 0, RetrieveLimit},
     upstream : {Answer(n, done) : n \in 0..MaxTokens, done \in BOOLEAN},
     failed : BOOLEAN]

\* The bodies with the outcomes of the awaits they reach.
Reached(body, out) ==
    LET rd == readBody(body.chunks, 0, 0)
        message == parseMessage(body.content)
        retrieves == ~rd.tooLarge /\ ~message.threw /\ validate(message) = ""
    IN  /\ ~retrieves => out = Outcome(0, <<>>, FALSE)
        /\ out.results <= 0 => out.upstream = <<>> /\ ~out.failed

InputsOf(bodies, outcomes) ==
    {in \in bodies \X outcomes : Reached(in[1], in[2])}

\* A test for an empty result list that no list passes.
emptyResults_Never(results) == results < 0

\* results.length === 0
emptyResults(results) == results = 0

\* A relay that ends the response without the marker when the upstream
\* call throws.
relay_Silent(upstream, failed) ==
    LET stream == streamOpenAI(upstream, failed)
    IN  [parts |-> stream.tokens, ends |-> 1, threw |-> stream.threw]

\* The try block around streamOpenAI and its catch: the text written with
\* res.write and res.end, the number of res.end calls, and whether the catch
\* block ran.
relay(upstream, failed) ==
    LET stream == streamOpenAI(upstream, failed)
    IN  [parts |-> IF stream.threw
                   THEN Append(stream.tokens, ErrorMarker)
                   ELSE stream.tokens,
         ends |-> 1,
         threw |-> stream.threw]

\* handleChat(req, res): the response it ends with, NoResponse when the
\* promise it returns rejects before anything is written.  `headers` are the
\* headers set on res before the call.
handleChat(body, out, headers) ==
    LET rd == readBody(body.chunks, 0, 0)
        message == parseMessage(body.content)
        error == validate(message)
        answer ==
            IF rd.tooLarge
            THEN [sendJson(413, ErrorBody("Request too large"), headers)
                    EXCEPT !.steps = {}]
            ELSE IF message.threw
            THEN [sendJson(400, ErrorBody("Invalid JSON"), headers)
                    EXCEPT !.steps = {"parse"}]
            ELSE IF error # ""
            THEN [sendJson(400, validationBody(error), headers)
                    EXCEPT !.steps = {"parse", "validate"}]
            ELSE IF out.results = Rejected
            THEN [NoResponse EXCEPT !.steps = {"parse", "validate", "retrieve"}]
            ELSE IF emptyResults(out.results)
            THEN [sendText(<<Apology>>, headers)
                    EXCEPT !.steps = {"parse", "validate", "retrieve"}]
            ELSE LET relayed == relay(out.upstream, out.failed) IN
                 [sendText(relayed.parts, headers)
                    EXCEPT !.steps = {"parse", "validate", "retrieve", "upstream"},
                           !.ends = relayed.ends,
                           !.upstream = out.upstream,
                           !.failed = relayed.threw]
    IN  [answer EXCEPT !.read = rd.read, !.results = out.results, !.sent = Sent(body)]

(***************************************************************************)
(* State.                                                                  *)
(***************************************************************************)
\* The window a request at `now` is counted in: the one opened by the key's
\* first request while now <= first + RATE_WINDOW_MS, a new one after that.
NoWindow == [first |-> -1, n |-> 0]

\* The step taken last.  For POST /chat: the request, its key, the time checkRateLimit
\* read, what it returned, and the key's record and window before the call.
NoCheck == [allowed |-> FALSE, remaining |-> 0, resetAt |-> -1]
NoOp ==
    [name |-> "start", req |-> Request("", "", Absent, Absent, Absent),
     ip |-> Absent, now |-> 0, check |-> NoCheck,
     record |-> NoRecord, before |-> NoWindow]
Op(name) == [NoOp EXCEPT !.name = name, !.now = clock]
counted(w, now) ==
    IF w.n = 0 \/ now > w.first + RATE_WINDOW_MS
    THEN [first |-> now, n |-> 1]
    ELSE [first |-> w.first, n |-> IF w.n <= MaxRateLimit + 1 THEN w.n + 1 ELSE w.n]

\* The times at which checkRateLimit allowed a request of one key, within the
\* RATE_WINDOW_MS that end at `now`.
allowedWithin(times, now, allowed) ==
    LET recent(t) == t > now - RATE_WINDOW_MS
    IN  SelectSeq(times, recent) \o (IF allowed THEN <<now>> ELSE <<>>)

config == <<RATE_LIMIT, RATE_WINDOW_MS, env>>
storage == <<tables, created, lastWritten>>
limiter == <<rateLimitStore, nextSweep, window, admitted>>

Envs(urls, tokens, paths) ==
    [OPENAI_API_KEY : {"sk"}, UPSTASH_VECTOR_REST_URL : urls,
     UPSTASH_VECTOR_REST_TOKEN : tokens, DOCS_CHAT_DB : paths]

\* The server right after startup at time `start`, for clients with the
\* given keys.
StartedFor(keys, start) ==
    /\ clock = start
    /\ nextSweep = start + RATE_WINDOW_MS
    /\ rateLimitStore = [ip \in keys |-> NoRecord]
    /\ resp = NoResponse
    /\ created = NotCreated
    /\ lastWritten = 0
    /\ window = [ip \in keys |-> NoWindow]
    /\ op = NoOp

\* The keys whose allowed requests are observed.
Observing(keys) == admitted = [ip \in keys |-> <<>>]

Started(start) == StartedFor(Keys, start) /\ Observing({})

(***************************************************************************)
(* Time and the periodic sweep.                                            *)
(***************************************************************************)
Tick(d) ==
    /\ clock + d <= MaxClock
    /\ clock' = clock + d
    /\ resp' = NoResponse
    /\ op' = Op("tick")
    /\ UNCHANGED <<config, storage, limiter>>

\* The setInterval callback, every RATE_WINDOW_MS at the earliest.
Sweep ==
    /\ clock >= nextSweep
    /\ rateLimitStore' = sweep(clock, rateLimitStore)
    /\ nextSweep' = clock + RATE_WINDOW_MS
    /\ resp' = NoResponse
    /\ op' = Op("sweep")
    /\ UNCHANGED <<config, storage, clock, window, admitted>>

(***************************************************************************)
(* The request handler (the http.createServer callback).                   *)
(***************************************************************************)
Options(req) ==
    /\ route(req) = "options"
    /\ resp' = [NoResponse EXCEPT !.status = 204, !.ends = 1]
    /\ op' = Op("options")
    /\ UNCHANGED <<config, storage, limiter, clock>>

Health(req) ==
    /\ route(req) = "health"
    /\ resp' = sendJson(200,
                        [EmptyBody EXCEPT !.ok = TRUE,
                                          !.chunks = count(store, tables),
                                          !.mode = "vector"],
                        {})
    /\ op' = Op("health")
    /\ UNCHANGED <<config, storage, limiter, clock>>

NotFound(req) ==
    /\ route(req) = "notfound"
    /\ resp' = sendJson(404, ErrorBody("Not found"), {})
    /\ op' = Op("notfound")
    /\ UNCHANGED <<config, storage, limiter, clock>>

\* The POST /chat branch up to `if (!rateCheck.allowed)`.
Checked(req, check) ==
    /\ route(req) = "chat"
    /\ rateLimitStore' = check.map
    /\ window' = [window EXCEPT ![getClientIP(req)] = counted(@, clock)]
    /\ admitted' = [ip \in DOMAIN admitted |->
                       IF ip = getClientIP(req)
                       THEN allowedWithin(admitted[ip], clock, check.allowed)
                       ELSE admitted[ip]]
    /\ op' = [name |-> "chat", req |-> req, ip |-> getClientIP(req), now |-> clock,
               check |-> [allowed |-> check.allowed, remaining |-> check.remaining,
                          resetAt |-> check.resetAt],
               record |-> rateLimitStore[getClientIP(req)],
               before |-> window[getClientIP(req)]]
    /\ UNCHANGED <<config, storage, nextSweep>>

\* POST /chat, refused by the limiter.  `d` is the time that passes between
\* the Date.now() of checkRateLimit and the one that computes retryAfter.
Limited(req, d) ==
    LET ip == getClientIP(req)
        check == checkRateLimit(ip, clock, rateLimitStore)
        retryAfter == Ceil(check.resetAt - (clock + d), MsPerSecond)
    IN  /\ Checked(req, check)
        /\ ~check.allowed
        /\ clock + d <= MaxClock
        /\ clock' = clock + d
        /\ resp' = [sendJson(429,
                             [ErrorBody("Too many requests. Please wait before trying again.")
                                EXCEPT !.retryAfter = retryAfter],
                             rateLimitHeaders(check) \cup {<<"Retry-After", retryAfter>>})
                      EXCEPT !.ip = ip]

\* POST /chat, admitted by the limiter: handleChat.
Chat(req, body, out) ==
    LET ip == getClientIP(req)
        check == checkRateLimit(ip, clock, rateLimitStore)
    IN  /\ Checked(req, check)
        /\ check.allowed
        /\ clock' = clock
        /\ resp' = [handleChat(body, out, rateLimitHeaders(check)) EXCEPT !.ip = ip]

\* rateCheck.allowed of a POST /chat request made now.
Admitted(req) ==
    /\ route(req) = "chat"
    /\ checkRateLimit(getClientIP(req), clock, rateLimitStore).allowed

\* The steps of the server, for requests and for bodies with their outcomes
\* drawn from the given sets.
Server(requests, inputs) ==
    \/ \E d \in Steps : Tick(d)
    \/ Sweep
    \/ \E req \in requests : Options(req)
    \/ \E req \in requests : Health(req)
    \/ \E req \in requests : NotFound(req)
    \/ \E req \in requests, d \in {0} \cup Steps : Limited(req, d)
    \/ \E req \in requests :
          Admitted(req) /\ \E in \in inputs : Chat(req, in[1], in[2])

(***************************************************************************)
(* Spec: the rate limiter in every configuration, under the requests of    *)
(* two clients.                                                            *)
(***************************************************************************)
LimiterInputs ==
    InputsOf(BodiesOf({<<>>, <<20>>, <<MAX_BODY_SIZE, 20>>},
                      {NoContent, [NoContent EXCEPT !.kind = "message", !.core = 1]}),
             {Outcome(0, <<>>, FALSE), Outcome(1, Answer(MaxTokens, TRUE), FALSE)})

Init ==
    /\ RATE_LIMIT \in 0..MaxRateLimit
    /\ RATE_WINDOW_MS \in Windows
    /\ env \in Envs({Undefined}, {Undefined}, {Undefined})
    /\ tables = [l \in Locations |-> 0]
    /\ Started(0)

Next == Server(Requests, LimiterInputs)

Spec == Init /\ [][Next]_vars

(***************************************************************************)
(* SpecChat: handleChat on bodies around the two limits, with every        *)
(* outcome of retrieval and of the upstream call, behind a limiter that    *)
(* admits one request per window.                                          *)
(***************************************************************************)
ChatChunkings ==
    {<<>>, <<20>>, <<20, 4000>>, <<MAX_BODY_SIZE>>, <<MAX_BODY_SIZE, 20>>,
     <<4000, 4000, 4000, 20>>}

ChatInputs ==
    InputsOf(BodiesOf(ChatChunkings, MessageContents \cup OtherContents), Outcomes)

InitChat ==
    /\ RATE_LIMIT = 1
    /\ RATE_WINDOW_MS \in Windows
    /\ env \in Envs({Undefined}, {Undefined}, {Undefined})
    /\ tables = [l \in Locations |-> 0]
    /\ Started(MaxClock - 1000)

NextChat == Server(Requests \ {ChatOfB}, ChatInputs)

SpecChat == InitChat /\ [][NextChat]_vars

(***************************************************************************)
(* SpecStream: one admitted request with a valid message, for upstream     *)
(* bodies of up to MaxLines lines, the last one with or without its        *)
(* newline, cut into up to MaxChunks chunks at every position.             *)
(***************************************************************************)
\* Two data lines with content (one with a space after the colon), one
\* with empty content, [DONE] and the blank line between events.
LineKinds ==
    {Data \o <<"x">>, Data \o <<" ", "y">>, Data \o <<"e">>, Data \o <<"!">>, <<>>}

\* The texts of n lines, each ended by a newline.
RECURSIVE Texts(_)
Texts(n) ==
    IF n = 0 THEN {<<>>}
    ELSE {text \o line \o <<Newline>> : text \in Texts(n - 1), line \in LineKinds}

\* The texts of up to MaxLines lines; the last line may lack its newline.
UpstreamTexts ==
    UNION {Texts(n) : n \in 0..MaxLines}
    \cup UNION {{text \o line : text \in Texts(n - 1), line \in LineKinds \ {<<>>}} :
                  n \in 1..MaxLines}

\* The ways a text arrives in at most k chunks.
RECURSIVE Splits(_, _)
Splits(text, k) ==
    IF text = <<>> THEN {<<>>}
    ELSE IF k <= 1 THEN {<<text>>}
    ELSE {<<text>>} \cup
         UNION {{<<SubSeq(text, 1, i)>> \o rest :
                    rest \in Splits(SubSeq(text, i + 1, Len(text)), k - 1)} :
                i \in 1..(Len(text) - 1)}

\* A valid message of one character.
StreamBodies ==
    BodiesOf({<<20>>}, {[NoContent EXCEPT !.kind = "message", !.core = 1]})

NextStream ==
    /\ Admitted(ChatOfA)
    /\ \E body \in StreamBodies, text \in UpstreamTexts :
          \E upstream \in Splits(text, MaxChunks), failed \in BOOLEAN :
             Chat(ChatOfA, body, Outcome(RetrieveLimit, upstream, failed))

SpecStream == InitChat /\ [][NextStream]_vars

(***************************************************************************)
(* SpecWindow: the limiter in every configuration under the requests of    *)
(* one client, with the times of its allowed requests observed.            *)
(***************************************************************************)
KeyInputs ==
    InputsOf(BodiesOf({<<>>}, {NoContent}), {Outcome(0, <<>>, FALSE)})

InitWindow ==
    /\ RATE_LIMIT \in 0..MaxRateLimit
    /\ RATE_WINDOW_MS \in Windows
    /\ env \in Envs({Undefined}, {Undefined}, {Undefined})
    /\ tables = [l \in Locations |-> 0]
    /\ StartedFor(Keys, 0)
    /\ Observing({getClientIP(ChatOfA)})

NextWindow == Server(Requests \ {ChatOfB}, KeyInputs)

SpecWindow == InitWindow /\ [][NextWindow]_vars

(***************************************************************************)
(* SpecKeys: POST /chat requests that differ in their proxy headers and    *)
(* socket address, behind a limiter that admits one request per key.       *)
(***************************************************************************)
InitKeys ==
    /\ RATE_LIMIT = 1
    /\ RATE_WINDOW_MS \in Windows
    /\ env \in Envs({Undefined}, {Undefined}, {Undefined})
    /\ tables = [l \in Locations |-> 0]
    /\ StartedFor(ProxiedKeys, 0)
    /\ Observing({})

NextKeys ==
    \/ \E req \in ProxiedRequests : Limited(req, 0)
    \/ \E req \in ProxiedRequests :
          Admitted(req) /\ \E in \in KeyInputs : Chat(req, in[1], in[2])

SpecKeys == InitKeys /\ [][NextKeys]_vars

(***************************************************************************)
(* SpecStore: the store factory, the index build and the health endpoint,  *)
(* for every setting of the storage environment variables.                 *)
(***************************************************************************)
\* A caller of the factory: createStore(mode, lancedbPath).
CreateStore(mode, lancedbPath) ==
    /\ created' = Created(mode, lancedbPath)
    /\ resp' = NoResponse
    /\ op' = Op("createStore")
    /\ UNCHANGED <<config, limiter, clock, tables, lastWritten>>

\* The index build: createStore() for the configured backend, DOCS_CHAT_DB
\* as the local path when it is set, then replaceAll of the n chunks.
BuildIndex(n) ==
    LET made == Created(Undefined, JsOr(env.DOCS_CHAT_DB, Undefined)) IN
    /\ created' = made
    /\ tables' = replaceAll(made.result.store, n, tables)
    /\ lastWritten' = n
    /\ resp' = NoResponse
    /\ op' = Op("index")
    /\ UNCHANGED <<config, limiter, clock>>

InitStore ==
    /\ RATE_LIMIT = 1
    /\ RATE_WINDOW_MS \in Windows
    /\ env \in Envs({Undefined, EmptyString, "https://index"},
                    {Undefined, EmptyString, "token"},
                    {Undefined, CustomPath})
    /\ tables = [l \in Locations |-> 0]
    /\ Started(0)

NextStore ==
    \/ \E mode \in {Undefined, "upstash", "lancedb"}, lancedbPath \in {Undefined, CustomPath} :
          CreateStore(mode, lancedbPath)
    \/ \E n \in 0..MaxIndexChunks : BuildIndex(n)
    \/ \E req \in Requests : Health(req)

SpecStore == InitStore /\ [][NextStore]_vars

(***************************************************************************)
(* Properties of the rate limiter (Spec).                                  *)
(***************************************************************************)
\* C1: for any configured limit N, the (N+1)-th request of a key within one
\* window (t <= resetAt) is answered 429 with a Retry-After header greater
\* than 0 and X-RateLimit-Remaining 0.
C1_OverLimitRefused ==
    (op.name = "chat" /\ window[op.ip].n = RATE_LIMIT + 1) =>
        /\ resp.status = 429
        /\ HasHeader(resp, "Retry-After")
        /\ Header(resp, "Retry-After") > 0
        /\ HasHeader(resp, "X-RateLimit-Remaining")
        /\ Header(resp, "X-RateLimit-Remaining") = 0

\* C2 as stated: the first request of a key that has used up its limit, made
\* once the time is at or past resetAt, is allowed and opens a new window
\* with count 1 and resetAt = now + RATE_WINDOW_MS, whether or not the sweep
\* has removed the old record.
C2_NewWindowAtReset ==
    (/\ op.name = "chat"
     /\ op.before.n >= 1
     /\ op.before.n >= RATE_LIMIT
     /\ op.now >= op.before.first + RATE_WINDOW_MS) =>
        /\ op.check.allowed
        /\ resp.status # 429
        /\ rateLimitStore[op.ip] = [count |-> 1, resetAt |-> op.now + RATE_WINDOW_MS]

\* C2, amended: the same for the first request made once the time is past
\* resetAt (now > resetAt).
C2_NewWindowAfterReset ==
    (/\ op.name = "chat"
     /\ op.before.n >= 1
     /\ op.before.n >= RATE_LIMIT
     /\ op.now > op.before.first + RATE_WINDOW_MS) =>
        /\ op.check.allowed
        /\ resp.status # 429
        /\ rateLimitStore[op.ip] = [count |-> 1, resetAt |-> op.now + RATE_WINDOW_MS]

\* A key that used up a limit of at least 1 is admitted after its window,
\* with the expired record still in the map.
C2_Witness ==
    /\ op.name = "chat"
    /\ RATE_LIMIT >= 1
    /\ op.before.n >= RATE_LIMIT
    /\ op.record # NoRecord
    /\ op.record.count >= RATE_LIMIT
    /\ op.now > op.record.resetAt
    /\ op.check.allowed
    /\ rateLimitStore[op.ip].count = 1

\* C3: rate-limit state is kept per key.  A checkRateLimit call for one key
\* leaves the record of every other key as it was, and what it returns and
\* stores is what it would with no other key in the map: using up the limit
\* of one key has no effect on the requests of another.
C3_KeysIsolated ==
    [][op'.name = "chat" =>
         /\ \A other \in Keys \ {op'.ip} : rateLimitStore'[other] = rateLimitStore[other]
         /\ LET alone == checkRateLimit(op'.ip, op'.now,
                                        [k \in Keys |-> IF k = op'.ip
                                                        THEN op'.record
                                                        ELSE NoRecord])
            IN  /\ op'.check.allowed = alone.allowed
                /\ op'.check.remaining = alone.remaining
                /\ op'.check.resetAt = alone.resetAt
                /\ rateLimitStore'[op'.ip] = alone.map[op'.ip]]_vars

\* The first request of the client behind the proxy is admitted with the
\* whole limit while the other client is held at its limit.
C3_Witness ==
    /\ op.name = "chat"
    /\ op.ip = getClientIP(ChatOfB)
    /\ op.record = NoRecord
    /\ op.check.allowed
    /\ op.check.remaining = RATE_LIMIT - 1
    /\ RATE_LIMIT >= 1
    /\ rateLimitStore[getClientIP(ChatOfA)].count >= RATE_LIMIT
    /\ op.now <= rateLimitStore[getClientIP(ChatOfA)].resetAt

\* C4: in LanceDB (local) mode the server enforces no rate limit: it never
\* answers 429, however many requests a key makes.
C4_LocalModeNeverLimits ==
    detectStoreMode = "lancedb" => resp.status # 429

(***************************************************************************)
(* Properties of handleChat (SpecChat).                                    *)
(***************************************************************************)
\* C5 as stated: a request that reaches handleChat with a string message of
\* more than MAX_MESSAGE_LENGTH characters after trimming is answered 400
\* with an error that names the limit, whatever the size of its body.
C5_TooLongRefused ==
    (/\ op.name = "chat"
     /\ op.check.allowed
     /\ resp.sent.kind = "message"
     /\ resp.sent.trimmed > MAX_MESSAGE_LENGTH) =>
        /\ resp.status = 400
        /\ resp.body.error = "Message too long"
        /\ resp.body.max = MAX_MESSAGE_LENGTH

\* C5, amended: the same for the requests whose body is at most
\* MAX_BODY_SIZE bytes.
C5_TooLongRefusedWithinCap ==
    (/\ op.name = "chat"
     /\ op.check.allowed
     /\ resp.sent.kind = "message"
     /\ resp.sent.trimmed > MAX_MESSAGE_LENGTH
     /\ Sum(resp.sent.chunks) <= MAX_BODY_SIZE) =>
        /\ resp.status = 400
        /\ resp.body.error = "Message too long"
        /\ resp.body.max = MAX_MESSAGE_LENGTH

\* A message one character over the limit, in a body under the cap, is
\* refused with the limit in the error.
C5_Witness ==
    /\ op.name = "chat"
    /\ resp.sent.kind = "message"
    /\ resp.sent.trimmed = MAX_MESSAGE_LENGTH + 1
    /\ Sum(resp.sent.chunks) <= MAX_BODY_SIZE
    /\ resp.status = 400
    /\ resp.body.max = MAX_MESSAGE_LENGTH

\* C6: a request whose body is well-formed JSON with a string message of 1
\* to MAX_MESSAGE_LENGTH characters after trimming is never answered 400.
C6_ValidNeverRefused ==
    (/\ op.name = "chat"
     /\ op.check.allowed
     /\ resp.sent.kind = "message"
     /\ resp.sent.trimmed >= 1
     /\ resp.sent.trimmed <= MAX_MESSAGE_LENGTH) =>
        resp.status # 400

\* C7: a body of more than MAX_BODY_SIZE bytes is answered 413 at the chunk
\* with which the bytes read first pass the cap; nothing is parsed,
\* validated or retrieved and the upstream is not called.
C7_OversizeCutOff ==
    (/\ op.name = "chat"
     /\ op.check.allowed
     /\ Sum(resp.sent.chunks) > MAX_BODY_SIZE) =>
        /\ resp.status = 413
        /\ resp.body.error = "Request too large"
        /\ resp.steps = {}
        /\ Sum(SubSeq(resp.sent.chunks, 1, resp.read)) > MAX_BODY_SIZE
        /\ \A k \in 0..(resp.read - 1) :
              Sum(SubSeq(resp.sent.chunks, 1, k)) <= MAX_BODY_SIZE

\* A body is cut off with 413 before its last chunk has been read.
C7_Witness ==
    /\ op.name = "chat"
    /\ resp.status = 413
    /\ resp.read >= 2
    /\ resp.read < Len(resp.sent.chunks)

\* C8: when the retriever returns no results for a valid, admitted request,
\* the response is 200 with the apology as its whole body, and the upstream
\* is never called.
C8_NoResultsApology ==
    (/\ op.name = "chat"
     /\ "retrieve" \in resp.steps
     /\ resp.results = 0) =>
        /\ resp.status = 200
        /\ resp.type = "text/plain; charset=utf-8"
        /\ resp.body = TextBody(<<Apology>>)
        /\ "upstream" \notin resp.steps

\* A valid message for which nothing was retrieved is answered with the
\* apology.
C8_Witness ==
    /\ op.name = "chat"
    /\ resp.sent.kind = "message"
    /\ "retrieve" \in resp.steps
    /\ resp.results = 0
    /\ resp.status = 200
    /\ resp.body.text = <<Apology>>

(***************************************************************************)
(* Properties of the store factory and the health endpoint (SpecStore).    *)
(***************************************************************************)
\* C9: detectStoreMode() returns "upstash" if and only if both
\* UPSTASH_VECTOR_REST_URL and UPSTASH_VECTOR_REST_TOKEN are set (to a
\* non-empty value) and "lancedb" in every other case, and createStore()
\* called without a mode returns a store of the detected mode.
C9_ModeDetected ==
    LET bothSet == /\ env.UPSTASH_VECTOR_REST_URL \notin {Undefined, EmptyString}
                   /\ env.UPSTASH_VECTOR_REST_TOKEN \notin {Undefined, EmptyString}
        mode == IF bothSet THEN "upstash" ELSE "lancedb"
    IN  /\ detectStoreMode = mode
        /\ (op.name = "createStore" /\ created.mode = Undefined) =>
              /\ created.result.mode = mode
              /\ created.result.store.backend = mode

\* createStore() without a mode returned an Upstash store.
C9_Witness ==
    /\ op.name = "createStore"
    /\ created.mode = Undefined
    /\ created.result.store.backend = "upstash"

\* C10: with the default configuration (DOCS_CHAT_DB not set), after any
\* sequence of index builds GET /health and GET / answer 200 with chunks
\* equal to the number of chunks written by the most recent replaceAll, for
\* both backends.
C10_HealthCountsLastWrite ==
    (op.name = "health" /\ env.DOCS_CHAT_DB = Undefined) =>
        /\ resp.status = 200
        /\ resp.body.chunks = lastWritten

(***************************************************************************)
(* Properties of the failure paths of handleChat (SpecChat).               *)
(***************************************************************************)
\* C11: when embedding or retrieval fails for a valid, admitted request, the
\* client receives a response with a 5xx status: the request is not left
\* without a response.
C11_RetrievalFailureAnswered ==
    (/\ op.name = "chat"
     /\ op.check.allowed
     /\ "retrieve" \in resp.steps
     /\ resp.results = Rejected) =>
        resp.status >= 500

C13_TokensPreserved ==
    (/\ op.name = "chat"
     /\ "upstream" \in resp.steps
     /\ ~resp.failed) =>
        LET text == splitLines(Flatten(resp.upstream), <<>>, <<>>)
        IN  resp.body.text = processLines(Append(text.lines, text.rest), <<>>).tokens

(***************************************************************************)
(* Further properties of the POST /chat branch and the limiter (Spec).     *)
(***************************************************************************)
\* C14: every response to a POST /chat request, whatever its status (200,
\* 400, 413 or 429), carries X-RateLimit-Limit = RATE_LIMIT,
\* X-RateLimit-Remaining = max(0, RATE_LIMIT - the count of the key's record
\* after the request), never negative, and X-RateLimit-Reset = the record's
\* resetAt in epoch seconds.
C14_HeadersOnEveryResponse ==
    (op.name = "chat" /\ resp.status # 0) =>
        LET record == rateLimitStore[op.ip] IN
        /\ resp.status \in {200, 400, 413, 429}
        /\ \A name \in {"X-RateLimit-Limit", "X-RateLimit-Remaining", "X-RateLimit-Reset"} :
              Cardinality({h \in resp.headers : h[1] = name}) = 1
        /\ Header(resp, "X-RateLimit-Limit") = RATE_LIMIT
        /\ Header(resp, "X-RateLimit-Remaining") >= 0
        /\ Header(resp, "X-RateLimit-Remaining") =
              (IF RATE_LIMIT - record.count > 0 THEN RATE_LIMIT - record.count ELSE 0)
        /\ Header(resp, "X-RateLimit-Reset") * MsPerSecond >= record.resetAt
        /\ (Header(resp, "X-RateLimit-Reset") - 1) * MsPerSecond < record.resetAt

\* With a limit of 0 an admitted request is answered with a remaining count
\* of 0, and a reset time that is not a whole second is rounded up.
C14_Witness ==
    /\ op.name = "chat"
    /\ RATE_LIMIT = 0
    /\ resp.status = 200
    /\ Header(resp, "X-RateLimit-Remaining") = 0
    /\ Header(resp, "X-RateLimit-Reset") * MsPerSecond > rateLimitStore[op.ip].resetAt

(***************************************************************************)
(* The store the server serves from (SpecStore).                           *)
(***************************************************************************)
\* C15: the server constructs its store through the factory, so the backend
\* behind /chat retrieval and the /health count is the one detectStoreMode()
\* selects: the cloud store when both Upstash variables are set, the local
\* store otherwise.
C15_ServerStoreFromFactory ==
    /\ store.backend = detectStoreMode
    /\ store.backend = createStore(Undefined, env.DOCS_CHAT_DB).store.backend

(***************************************************************************)
(* The key of a request (SpecKeys).                                        *)
(***************************************************************************)
\* C16: the rate-limit key of a request is the first comma-separated address
\* of X-Forwarded-For when that header is present, otherwise X-Real-IP when
\* present, otherwise the socket's remote address, otherwise "unknown"; and
\* a request is counted against the record of its key and of no other key,
\* so two requests share a record if and only if they resolve to the same
\* key.
C16_KeyPrecedence ==
    [][op'.name = "chat" =>
         LET req == op'.req
             comma == CHOOSE n \in 1..(Len(req.forwarded) + 1) :
                         /\ n = Len(req.forwarded) + 1 \/ req.forwarded[n] = ","
                         /\ \A i \in 1..(n - 1) : req.forwarded[i] # ","
             key == IF req.forwarded # Absent
                    THEN Trim(SubSeq(req.forwarded, 1, comma - 1))
                    ELSE IF req.realIp # Absent THEN Trim(req.realIp)
                    ELSE IF req.remoteAddress \notin {Absent, <<>>} THEN req.remoteAddress
                    ELSE Unknown
         IN  /\ op'.ip = key
             /\ op'.record = rateLimitStore[key]
             /\ rateLimitStore'[key] # NoRecord
             /\ op'.check.allowed =>
                   rateLimitStore'[key].count =
                      (IF op'.check.remaining = RATE_LIMIT - 1 /\ op'.check.resetAt = op'.now + RATE_WINDOW_MS
                       THEN 1 ELSE rateLimitStore[key].count + 1)
             /\ \A other \in (DOMAIN rateLimitStore) \ {key} :
                   rateLimitStore'[other] = rateLimitStore[other]]_vars

\* A request through a proxy, with both proxy headers, is refused on the
\* record of the first address of X-Forwarded-For while the keys of its
\* X-Real-IP and of its socket are free.
C16_Witness ==
    /\ op.name = "chat"
    /\ op.req.forwarded = <<" ", "b", " ", ",", "c">>
    /\ op.req.realIp = <<"c", " ">>
    /\ op.ip = <<"b">>
    /\ ~op.check.allowed
    /\ resp.status = 429
    /\ rateLimitStore[<<"c">>] = NoRecord
    /\ rateLimitStore[<<"a">>] = NoRecord

(***************************************************************************)
(* What a request reaches (SpecChat).                                      *)
(***************************************************************************)
\* C17: retrieval and the upstream model are invoked only for a request that
\* the limiter admitted and that passed every validation (a body within
\* MAX_BODY_SIZE, valid JSON with a string message whose trimmed length is
\* between 1 and MAX_MESSAGE_LENGTH); a request answered 400, 413 or 429
\* reaches neither retrieval nor the upstream model.
C17_WorkOnlyAfterValidation ==
    op.name = "chat" =>
       /\ resp.steps \cap {"retrieve", "upstream"} # {} =>
             /\ op.check.allowed
             /\ Sum(resp.sent.chunks) <= MAX_BODY_SIZE
             /\ resp.read = Len(resp.sent.chunks)
             /\ resp.sent.kind = "message"
             /\ resp.sent.trimmed >= 1
             /\ resp.sent.trimmed <= MAX_MESSAGE_LENGTH
             /\ {"parse", "validate"} \subseteq resp.steps
       /\ "upstream" \in resp.steps => "retrieve" \in resp.steps /\ resp.results > 0
       /\ resp.status \in {400, 413, 429} =>
             /\ resp.steps \cap {"retrieve", "upstream"} = {}
             /\ resp.results <= 0
             /\ resp.upstream = <<>>

\* A body of exactly MAX_BODY_SIZE bytes with a message of exactly
\* MAX_MESSAGE_LENGTH characters is admitted, retrieved for and streamed.
C17_Witness ==
    /\ op.name = "chat"
    /\ op.check.allowed
    /\ resp.status = 200
    /\ "upstream" \in resp.steps
    /\ Sum(resp.sent.chunks) = MAX_BODY_SIZE
    /\ resp.sent.trimmed = MAX_MESSAGE_LENGTH

(***************************************************************************)
(* The shape of the limiter's windows (SpecWindow).                        *)
(***************************************************************************)
\* C18: the limiter is a sliding window: in any interval of length
\* RATE_WINDOW_MS a key has at most RATE_LIMIT allowed requests.  Stated for
\* limits of at least 1 and for the intervals (now - RATE_WINDOW_MS, now]
\* that end with a request of the key.
C18_SlidingWindow ==
    RATE_LIMIT >= 1 =>
       \A ip \in DOMAIN admitted : Len(admitted[ip]) <= RATE_LIMIT

(***************************************************************************)
(* The sweep and the records (Spec).                                       *)
(***************************************************************************)
\* C19: the periodic sweep deletes only expired records (now > resetAt) and
\* leaves every unexpired record unchanged; after it no expired record
\* remains; and checkRateLimit, for every key at the time of the sweep and
\* at every later time, returns the same result and writes the same record
\* on the swept map as on the unswept one.
C19_SweepDeletesOnlyExpired ==
    [][op'.name = "sweep" =>
         \A ip \in DOMAIN rateLimitStore :
            LET record == rateLimitStore[ip]
                expired == record # NoRecord /\ clock > record.resetAt
                times == {clock} \cup {clock + d : d \in Steps \cup Windows}
                         \cup (IF record = NoRecord THEN {}
                               ELSE {t \in {record.resetAt, record.resetAt + 1} : t >= clock})
            IN  /\ rateLimitStore'[ip] = (IF expired THEN NoRecord ELSE record)
                /\ rateLimitStore'[ip] # NoRecord => clock <= rateLimitStore'[ip].resetAt
                /\ \A t \in times :
                      LET unswept == checkRateLimit(ip, t, rateLimitStore)
                          swept == checkRateLimit(ip, t, rateLimitStore')
                      IN  /\ swept.allowed = unswept.allowed
                          /\ swept.remaining = unswept.remaining
                          /\ swept.resetAt = unswept.resetAt
                          /\ swept.map[ip] = unswept.map[ip]]_vars

\* A sweep has deleted the expired record of one key and kept the record of
\* another key whose window ends at the time of the sweep.
C19_Witness ==
    /\ op.name = "sweep"
    /\ \E ip \in Keys :
          /\ window[ip].n > 0
          /\ window[ip].first + RATE_WINDOW_MS < op.now
          /\ rateLimitStore[ip] = NoRecord
    /\ \E ip \in Keys :
          /\ rateLimitStore[ip] # NoRecord
          /\ rateLimitStore[ip].resetAt = op.now

\* C20: for every configured RATE_LIMIT, every record has
\* 1 <= count <= RATE_LIMIT; the resetAt of a record does not change from its
\* creation until it is deleted or replaced by the record of a new window;
\* and a request answered 429 leaves the whole map unchanged.
C20_RecordsWellFormed ==
    [][/\ \A ip \in DOMAIN rateLimitStore :
             LET old == rateLimitStore[ip]
                 new == rateLimitStore'[ip]
             IN  /\ new # NoRecord => new.count >= 1 /\ new.count <= RATE_LIMIT
                 /\ (old # NoRecord /\ new # NoRecord /\ new.resetAt # old.resetAt) =>
                       /\ op'.name = "chat"
                       /\ op'.ip = ip
                       /\ op'.now > old.resetAt
                       /\ new = [count |-> 1, resetAt |-> op'.now + RATE_WINDOW_MS]
       /\ (op'.name = "chat" /\ resp'.status = 429) => rateLimitStore' = rateLimitStore]_vars

====
